---------------------------- MODULE Spec2Model ----------------------------
(* Task-management API (FastAPI + Beanie/MongoDB): the task store with its   *)
(* request handlers (Backend/app/routes/tasks.py), and the user directory    *)
(* with registration and login (Backend/app/routes/auth.py).                 *)
(*                                                                           *)
(* Python values: an Optional value is a set of at most one element, None is *)
(* {} and a present value x is {x}; so every field has one TLA+ type and     *)
(* None differs from "absent from the request body" (a key that is not in    *)
(* the body's DOMAIN) and from "provided empty" ({{}} for an empty list).    *)
(* A list of user ids or tags is modelled by the set of its elements: the    *)
(* code only tests membership ($in, `in`) on them.                           *)
EXTENDS Integers, Sequences, FiniteSets, TLC

VARIABLES
    tasks,      \* the tasks collection: task id -> stored document
    next_id,    \* the next ObjectId the store assigns (ids are never reused)
    now,        \* datetime.utcnow(): strictly increasing over the requests that read it
    boot_time,  \* the time the running process imported app.models (class-level defaults)
    users,      \* the users collection: sequence of stored user documents, in insertion order
    regs,       \* registration requests in flight: request -> its position and inputs
    upds,       \* task update requests in flight: request -> its position, inputs and local copy
    resp        \* the last response recorded: of the last request that changed the
                \* tasks collection, of the last registration or login

vars == <<tasks, next_id, now, boot_time, users, regs, upds, resp>>

-----------------------------------------------------------------------------
(* Bounds of the model *)

MaxTasks == 1
MaxTime == 3
MaxListed == 2
MaxUsers == 2
MaxRegs == 2
MaxUpds == 2

-----------------------------------------------------------------------------
(* Python's None / Optional *)

None == {}
Some(x) == {x}
TheValue(o) == CHOOSE x \in o : TRUE

\* obj.attr of a pydantic model built from a body: a field that was not set reads as
\* its default; every TaskUpdate field defaults to None (task.py 68-74)
Attr(body, f) == IF f \in DOMAIN body THEN body[f] ELSE None

-----------------------------------------------------------------------------
(* app/models/task.py *)

TODO == "todo"
IN_PROGRESS == "in_progress"
COMPLETED == "completed"
CANCELLED == "cancelled"
TaskStatus == {TODO, IN_PROGRESS, COMPLETED, CANCELLED}

LOW == "low"
MEDIUM == "medium"
HIGH == "high"
URGENT == "urgent"
TaskPriority == {LOW, MEDIUM, HIGH, URGENT}

\* The authenticated, active users that call the task handlers (str(current_user.id))
UserIds == {"u1", "u2"}

\* class Task(Document): the fields of a stored document
TaskFields == {"title", "description", "status", "priority", "due_date", "created_by",
               "assigned_to", "tags", "created_at", "updated_at", "completed_at"}

\* Task(...) as create_task builds it: status, created_at, updated_at and completed_at
\* take the class defaults. The defaults of created_at and updated_at are
\* datetime.utcnow() evaluated once, when the class body runs at import: every task
\* the process creates carries the same created_at, the process's boot time.
Task(title, description, priority, due_date, created_by, assigned_to, tags, boot) ==
    [title |-> title, description |-> description, status |-> Some(TODO),
     priority |-> priority, due_date |-> due_date, created_by |-> created_by,
     assigned_to |-> assigned_to, tags |-> tags,
     created_at |-> Some(boot), updated_at |-> Some(boot), completed_at |-> None]

\* Pydantic validation of a document read back from the collection (Task.get,
\* Task.find(...).to_list(), the document find_one_and_update returns): the fields
\* declared without Optional must not be None
ValidTask(doc) ==
    /\ doc.title /= None
    /\ doc.status /= None
    /\ doc.priority /= None

\* class TaskCreate(BaseModel): absent fields take the schema defaults
TaskCreateFields == {"title", "description", "priority", "due_date", "assigned_to", "tags"}
TaskCreateDefault(f) ==
    CASE f = "priority" -> Some(MEDIUM)
      [] f = "assigned_to" -> Some({})
      [] f = "tags" -> Some({})
      [] OTHER -> None
TaskCreate(body) ==
    [f \in TaskCreateFields |-> IF f \in DOMAIN body THEN body[f] ELSE TaskCreateDefault(f)]

\* TaskUpdate as it would be if the schema let undeclared keys through
\* (model_config extra = "allow")
TaskUpdate_AllowsExtraKeys(body) == body

\* class TaskUpdate(BaseModel): keys the schema does not declare are ignored; what is
\* left is what model_dump(exclude_unset=True) returns: exactly the keys the body
\* gave, an explicit null included
TaskUpdateFields == {"title", "description", "status", "priority", "due_date",
                     "assigned_to", "tags"}
TaskUpdate(body) == [f \in (DOMAIN body \cap TaskUpdateFields) |-> body[f]]


-----------------------------------------------------------------------------
(* The tasks collection and the Beanie calls the handlers make on it *)

\* A task id as it arrives in the path: wf says whether PydanticObjectId(task_id)
\* accepts the string; n is the id it denotes
PathIds(n) == {[wf |-> TRUE, n |-> i] : i \in 1..n} \cup {[wf |-> FALSE, n |-> 0]}

\* PydanticObjectId(task_id) raises on a malformed id; Task.get raises when the stored
\* document does not validate as a Task
TaskGetRaises(store, pid) ==
    \/ ~pid.wf
    \/ pid.n \in DOMAIN store /\ ~ValidTask(store[pid.n])

\* Task.get(id): the document, or None when the collection holds none under the id
TaskGet(store, pid) == IF pid.n \in DOMAIN store THEN Some(store[pid.n]) ELSE None

\* try: task = await Task.get(...) / except: 404 / if not task: 404. None stands for
\* "the handler answered 404"; otherwise the loaded task
LoadTask(store, pid) == IF TaskGetRaises(store, pid) THEN None ELSE TaskGet(store, pid)

\* {"$set": update_data} applied to a document
DocSet(doc, update_data) ==
    [f \in DOMAIN doc |-> IF f \in DOMAIN update_data THEN update_data[f] ELSE doc[f]]

\* task.save(): writes every field of the handler's local copy, as an upsert
DocSave(store, id, local) == (id :> local) @@ store

\* task.assigned_to or []
AssignedOrEmpty(task) == IF task.assigned_to = None THEN {} ELSE TheValue(task.assigned_to)

\* not (task.created_by != user_id and user_id not in assigned_to): get_task,
\* update_task and update_task_status make the same test
Involved(task, user_id) ==
    ~(task.created_by /= Some(user_id) /\ user_id \notin AssignedOrEmpty(task))

\* delete_task: not (task.created_by != str(current_user.id))
IsCreator(task, user_id) == ~(task.created_by /= Some(user_id))

-----------------------------------------------------------------------------
(* update_task (PUT /tasks/{id}) *)

\* update_task without its elif branch: a status other than completed does not
\* clear completed_at
PutUpdateData_NeverClears(task, task_data, t) ==
    IF DOMAIN task_data = {} THEN task_data
    ELSE LET stamped == ("updated_at" :> Some(t)) @@ task_data
             st == Attr(task_data, "status")
         IN  IF st = Some(COMPLETED) /\ task.status /= Some(COMPLETED)
             THEN ("completed_at" :> Some(t)) @@ stamped
             ELSE stamped

\* update_data as update_task computes it from the body, the task it read and the
\* clock (the two utcnow() calls of one request read the same instant here)
PutUpdateData(task, task_data, t) ==
    IF DOMAIN task_data = {} THEN task_data
    ELSE LET stamped == ("updated_at" :> Some(t)) @@ task_data
             st == Attr(task_data, "status")
         IN  IF st = Some(COMPLETED) /\ task.status /= Some(COMPLETED)
             THEN ("completed_at" :> Some(t)) @@ stamped
             ELSE IF st /= None /\ st /= Some(COMPLETED)
                  THEN ("completed_at" :> None) @@ stamped
                  ELSE stamped

\* What the write of a handler leaves behind: task.update({"$set": ...}) changes the
\* stored document and parses the document the store returns; when that document
\* is not a valid Task the request ends there with a server error, the write done.
\* Otherwise task.save() rewrites the refreshed local copy.
WriteTask(store, id, update_data) ==
    LET written == DocSet(store[id], update_data)
        updated == [store EXCEPT ![id] = written]
    IN  IF ValidTask(written)
        THEN [code |-> 200, store |-> DocSave(updated, id, written)]
        ELSE [code |-> 500, store |-> updated]

UpdateTaskResult(store, user_id, pid, body, t) ==
    LET found == LoadTask(store, pid)
    IN  IF found = None THEN [code |-> 404, store |-> store]
        ELSE LET task == TheValue(found)
             IN  IF ~Involved(task, user_id) THEN [code |-> 403, store |-> store]
                 ELSE LET update_data == PutUpdateData(task, TaskUpdate(body), t)
                      IN  IF DOMAIN update_data = {}
                          THEN [code |-> 200, store |-> store]
                          ELSE WriteTask(store, pid.n, update_data)

-----------------------------------------------------------------------------
(* update_task_status (PATCH /tasks/{id}/status) *)

\* TaskStatusUpdate.status is a TaskStatus, never None
PatchUpdateData(task, status, t) ==
    LET update_data == [status |-> Some(status), updated_at |-> Some(t)]
    IN  IF status = COMPLETED /\ task.status /= Some(COMPLETED)
        THEN ("completed_at" :> Some(t)) @@ update_data
        ELSE IF status /= COMPLETED
             THEN ("completed_at" :> None) @@ update_data
             ELSE update_data

UpdateTaskStatusResult(store, user_id, pid, status, t) ==
    LET found == LoadTask(store, pid)
    IN  IF found = None THEN [code |-> 404, store |-> store]
        ELSE LET task == TheValue(found)
             IN  IF ~Involved(task, user_id) THEN [code |-> 403, store |-> store]
                 ELSE WriteTask(store, pid.n, PatchUpdateData(task, status, t))

-----------------------------------------------------------------------------
(* get_task, delete_task *)

GetTaskResult(store, user_id, pid) ==
    LET found == LoadTask(store, pid)
    IN  IF found = None THEN [code |-> 404, store |-> store]
        ELSE IF ~Involved(TheValue(found), user_id) THEN [code |-> 403, store |-> store]
             ELSE [code |-> 200, store |-> store]

DeleteTaskResult(store, user_id, pid) ==
    LET found == LoadTask(store, pid)
    IN  IF found = None THEN [code |-> 404, store |-> store]
        ELSE IF ~IsCreator(TheValue(found), user_id) THEN [code |-> 403, store |-> store]
             ELSE [code |-> 204,
                   store |-> [i \in DOMAIN store \ {pid.n} |-> store[i]]]

-----------------------------------------------------------------------------
(* create_task (POST /tasks/) *)

\* task_data.assigned_to or [], task_data.tags or []
OrEmptyList(o) == IF o = None THEN Some({}) ELSE o

CreateTaskDoc(user_id, body, boot) ==
    LET task_data == TaskCreate(body)
    IN  Task(task_data.title, task_data.description, task_data.priority,
             task_data.due_date, Some(user_id), OrEmptyList(task_data.assigned_to),
             OrEmptyList(task_data.tags), boot)

\* task.insert(): the store assigns the next id
CreateTaskResult(store, id, user_id, body, boot) ==
    [code |-> 201, store |-> (id :> CreateTaskDoc(user_id, body, boot)) @@ store]

-----------------------------------------------------------------------------
(* get_tasks (GET /tasks/) *)

DefaultLimit == 100

\* The Mongo query get_tasks builds, as a predicate on a stored document
Matches(doc, user_id, q) ==
    LET mine == doc.created_by = Some(user_id)
        assigned == doc.assigned_to /= None /\ user_id \in TheValue(doc.assigned_to)
        any == q.assigned_to_me \/ q.created_by_me \/ q.status /= None \/ q.priority /= None
    IN  /\ q.status /= None => doc.status = q.status
        /\ q.priority /= None => doc.priority = q.priority
        /\ q.assigned_to_me => assigned
        /\ q.created_by_me => mine
        /\ ~any => (mine \/ assigned)

Perms(S) ==
    {s \in [1..Cardinality(S) -> S] : \A i, j \in DOMAIN s : i /= j => s[i] /= s[j]}

\* sort([("created_at", DESCENDING)]): the store fixes no order among documents with
\* equal created_at, so each order of the ties is a possible answer
SortedByCreatedDesc(store, ids) ==
    {s \in Perms(ids) :
        \A i, j \in DOMAIN s :
            i < j => TheValue(store[s[i]].created_at) >= TheValue(store[s[j]].created_at)}

Min(a, b) == IF a < b THEN a ELSE b

\* find(query).skip(skip).limit(limit).sort(...).to_list(): the cursor sorts, then
\* skips, then limits; to_list() parses each returned document as a Task and raises
\* on one that does not validate
GetTasksResults(store, user_id, q) ==
    LET ids == {i \in DOMAIN store : Matches(store[i], user_id, q)}
    IN  {LET page == SubSeq(s, q.skip + 1, Min(Len(s), q.skip + q.limit))
         IN  IF \E k \in DOMAIN page : ~ValidTask(store[page[k]])
             THEN [code |-> 500, items |-> <<>>]
             ELSE [code |-> 200, items |-> page]
         : s \in SortedByCreatedDesc(store, ids)}

\* the query with no filter given: the defaults of get_tasks' parameters
NoFilter == [status |-> None, priority |-> None, assigned_to_me |-> FALSE,
             created_by_me |-> FALSE, skip |-> 0, limit |-> DefaultLimit]

-----------------------------------------------------------------------------
(* Requests the model sends *)

Field(f, v) == f :> v

CreateBodies ==
    {Field("title", Some("a")),
     Field("title", Some("a")) @@ Field("assigned_to", Some({"u2"}))}

EmptyBody == [f \in {} |-> None]

\* PUT bodies: the empty body, a status alone, a field with an explicit null, a
\* field with a value, keys TaskUpdate does not declare, and bodies of two fields
PutBodies ==
    {EmptyBody}
    \cup {Field("status", Some(s)) : s \in TaskStatus}
    \cup {Field("status", None), Field("title", None), Field("assigned_to", None),
          Field("assigned_to", Some({"u2"})),
          Field("created_by", Some("u2")),
          Field("status", Some(IN_PROGRESS)) @@ Field("title", Some("b"))}

\* A response: the handler that answered, the HTTP status, the error detail
NoResp == [op |-> "none", code |-> 0, detail |-> "", token |-> None]
Resp(op, code, detail) == [op |-> op, code |-> code, detail |-> detail, token |-> None]

EmptyStore == [i \in {} |-> None]

-----------------------------------------------------------------------------
(* The task service, one request at a time *)

Init ==
    /\ tasks = EmptyStore
    /\ next_id = 1
    /\ now = 1
    /\ boot_time = 0
    /\ users = <<>>
    /\ regs = <<>>
    /\ upds = <<>>
    /\ resp = NoResp

\* The outcome r of a handler becomes the state. A handler that wrote read the clock,
\* and the next request reads a later instant. A request that leaves the collection
\* as it was (a read, a 403, a 404, an empty PUT) leaves the whole state as it was:
\* its answer is r.code.
Commit(r, op) ==
    /\ r.store /= tasks => now < MaxTime
    /\ tasks' = r.store
    /\ now' = IF r.store /= tasks /\ op \in {"put", "patch"} THEN now + 1 ELSE now
    /\ resp' = IF r.store /= tasks THEN Resp(op, r.code, "") ELSE resp
    /\ UNCHANGED <<boot_time, users, regs, upds>>

create_task(user_id, body) ==
    /\ next_id' = next_id + 1
    /\ tasks' = CreateTaskResult(tasks, next_id, user_id, body, boot_time).store
    /\ resp' = Resp("create", 201, "")
    /\ UNCHANGED <<now, boot_time, users, regs, upds>>

get_tasks(user_id, q) ==
    /\ GetTasksResults(tasks, user_id, q) /= {}
    /\ UNCHANGED vars

get_task(user_id, pid) ==
    /\ Commit(GetTaskResult(tasks, user_id, pid), "get")
    /\ UNCHANGED next_id

update_task(user_id, pid, body) ==
    /\ Commit(UpdateTaskResult(tasks, user_id, pid, body, now), "put")
    /\ UNCHANGED next_id

update_task_status(user_id, pid, status) ==
    /\ Commit(UpdateTaskStatusResult(tasks, user_id, pid, status, now), "patch")
    /\ UNCHANGED next_id

delete_task(user_id, pid) ==
    /\ Commit(DeleteTaskResult(tasks, user_id, pid), "delete")
    /\ UNCHANGED next_id

Next ==
    \/ \E u \in UserIds, b \in CreateBodies : next_id <= MaxTasks /\ create_task(u, b)
    \/ \E u \in UserIds : get_tasks(u, NoFilter)
    \/ \E u \in UserIds, pid \in PathIds(MaxTasks) : get_task(u, pid)
    \/ \E u \in UserIds, pid \in PathIds(MaxTasks), b \in PutBodies : update_task(u, pid, b)
    \/ \E u \in UserIds, pid \in PathIds(MaxTasks), s \in TaskStatus :
          update_task_status(u, pid, s)
    \/ \E u \in UserIds, pid \in PathIds(MaxTasks) : delete_task(u, pid)

Spec == Init /\ [][Next]_vars

-----------------------------------------------------------------------------
(* Properties of the task service *)

\* The claims' own reading of "creator" and "assignee": the stored fields
CreatedBy(doc, u) == doc.created_by = Some(u)
AssignedTo(doc, u) == doc.assigned_to /= None /\ u \in TheValue(doc.assigned_to)
Stored(pid) == pid.wf /\ pid.n \in DOMAIN tasks

\* C1: every stored task has completed_at non-null if and only if its status is
\* completed, after any sequence of creations, PUT updates and PATCH status updates.
C1_CompletedAtIffCompleted ==
    \A id \in DOMAIN tasks :
        (tasks[id].completed_at /= None) <=> (tasks[id].status = Some(COMPLETED))

\* C2: GET, PUT and PATCH-status on an id that is not stored (or is malformed) answer
\* 404 for every caller; on a stored task whose caller is neither its creator nor in
\* its assigned_to they answer 403 and leave the collection unchanged.
C2_NotFoundBeforeForbidden ==
    \A u \in UserIds, pid \in PathIds(MaxTasks) :
        \A r \in {GetTaskResult(tasks, u, pid)}
                 \cup {UpdateTaskResult(tasks, u, pid, b, now) : b \in PutBodies}
                 \cup {UpdateTaskStatusResult(tasks, u, pid, s, now) : s \in TaskStatus} :
            /\ ~Stored(pid) => r.code = 404
            /\ (Stored(pid) /\ ~CreatedBy(tasks[pid.n], u) /\ ~AssignedTo(tasks[pid.n], u))
                  => (r.code = 403 /\ r.store = tasks)

\* C3: a task leaves the collection only through a DELETE by its creator: a DELETE by
\* any other user, an assignee included, answers 403 and leaves the task as it is,
\* and no create, update, status update or get removes a task.
C3_OnlyCreatorDeletes ==
    \A u \in UserIds, pid \in PathIds(MaxTasks) :
        /\ (Stored(pid) /\ ~CreatedBy(tasks[pid.n], u))
              => DeleteTaskResult(tasks, u, pid) = [code |-> 403, store |-> tasks]
        /\ \A id \in DOMAIN tasks \ DOMAIN DeleteTaskResult(tasks, u, pid).store :
              id = pid.n /\ CreatedBy(tasks[id], u)
        /\ \A r \in {GetTaskResult(tasks, u, pid)}
                    \cup {UpdateTaskResult(tasks, u, pid, b, now) : b \in PutBodies}
                    \cup {UpdateTaskStatusResult(tasks, u, pid, s, now) : s \in TaskStatus}
                    \cup {CreateTaskResult(tasks, next_id, u, b, boot_time) : b \in CreateBodies} :
              \A id \in DOMAIN tasks : id \in DOMAIN r.store

\* C4: in every state, for every caller, id and status s, PATCH /tasks/{id}/status
\* with s and PUT /tasks/{id} with the body {"status": s} give the same answer and
\* leave the same collection behind.
C4_PatchEqualsStatusOnlyPut ==
    \A u \in UserIds, pid \in PathIds(MaxTasks), s \in TaskStatus :
        UpdateTaskStatusResult(tasks, u, pid, s, now)
            = UpdateTaskResult(tasks, u, pid, Field("status", Some(s)), now)

\* C4's case: a PATCH has moved a task into completed, so that from here a status
\* update keeps completed_at (completed again) or clears it (any other status)
C4_Witness ==
    /\ resp.op = "patch"
    /\ resp.code = 200
    /\ \E id \in DOMAIN tasks :
          /\ tasks[id].status = Some(COMPLETED)
          /\ tasks[id].completed_at = Some(now - 1)
          /\ tasks[id].updated_at = Some(now - 1)

\* C9: a PUT changes, in the task it names, only fields of the body that TaskUpdate
\* declares, updated_at, and completed_at when the body has a status; it changes no
\* other task; and neither PUT nor PATCH-status ever changes created_by.
C9_PutChangesOnlyBodyFields ==
    \A u \in UserIds, pid \in PathIds(MaxTasks) :
        /\ \A b \in PutBodies :
              LET r == UpdateTaskResult(tasks, u, pid, b, now)
              IN  \A id \in DOMAIN tasks :
                     /\ id \in DOMAIN r.store
                     /\ id /= pid.n => r.store[id] = tasks[id]
                     /\ r.store[id].created_by = tasks[id].created_by
                     /\ \A f \in TaskFields :
                           r.store[id][f] /= tasks[id][f]
                              => \/ f \in DOMAIN b \cap TaskUpdateFields
                                 \/ f = "updated_at"
                                 \/ f = "completed_at" /\ "status" \in DOMAIN b
        /\ \A s \in TaskStatus :
              LET r == UpdateTaskStatusResult(tasks, u, pid, s, now)
              IN  \A id \in DOMAIN tasks :
                     id \in DOMAIN r.store /\ r.store[id].created_by = tasks[id].created_by

\* C9's case: a PUT of {"status": "in_progress", "title": "b"} was accepted on a
\* task: title and status changed, updated_at was refreshed, the rest was kept
C9_Witness ==
    /\ resp.op = "put"
    /\ resp.code = 200
    /\ \E id \in DOMAIN tasks :
          /\ tasks[id].title = Some("b")
          /\ tasks[id].status = Some(IN_PROGRESS)
          /\ tasks[id].updated_at = Some(now - 1)
          /\ tasks[id].created_at = Some(boot_time)
          /\ tasks[id].assigned_to = Some({"u2"})

\* C11: after any sequence of create and update requests, PUT bodies with an explicit
\* null included, every stored task has a non-null title and a status that is one of
\* todo, in_progress, completed, cancelled; a task that was just created has status
\* todo and completed_at null.
C11_StoredTaskWellFormed ==
    /\ \A id \in DOMAIN tasks :
          /\ tasks[id].title /= None
          /\ tasks[id].status \in {Some(s) : s \in TaskStatus}
    /\ resp.op = "create" =>
          /\ tasks[next_id - 1].status = Some(TODO)
          /\ tasks[next_id - 1].completed_at = None

-----------------------------------------------------------------------------
(* Listing: tasks of several users, created before and after a restart *)

\* The process restarts: app.models.task is imported again and the class-level
\* defaults of created_at and updated_at are evaluated anew
Restart ==
    /\ now < MaxTime
    /\ boot_time' = now
    /\ now' = now + 1
    /\ resp' = NoResp
    /\ UNCHANGED <<tasks, next_id, users, regs, upds>>

ListCreateBodies ==
    CreateBodies \cup {Field("title", Some("a")) @@ Field("priority", Some(HIGH))}

\* Query strings of GET /tasks/: skip >= 0 and 1 <= limit <= 100 are enforced by
\* Query(...) before the handler runs
Queries ==
    [status : {None, Some(TODO), Some(COMPLETED)}, priority : {None, Some(HIGH)},
     assigned_to_me : BOOLEAN, created_by_me : BOOLEAN,
     skip : {0, 1}, limit : {1, DefaultLimit}]

NextList ==
    \/ \E u \in UserIds, b \in ListCreateBodies : next_id <= MaxListed /\ create_task(u, b)
    \/ \E u \in UserIds, q \in Queries : get_tasks(u, q)
    \/ \E u \in UserIds, pid \in PathIds(MaxListed), s \in TaskStatus :
          update_task_status(u, pid, s)
    \/ \E u \in UserIds, pid \in PathIds(MaxListed) : delete_task(u, pid)
    \/ Restart

SpecList == Init /\ [][NextList]_vars

\* C5: GET /tasks/ with no filter, skip 0 and no more matching tasks than limit,
\* answers exactly the tasks the caller created or is assigned to, the most recently
\* created first (the store assigns ids in creation order).
C5_ListMineNewestFirst ==
    \A u \in UserIds :
        LET mine == {id \in DOMAIN tasks : CreatedBy(tasks[id], u) \/ AssignedTo(tasks[id], u)}
        IN  Cardinality(mine) <= NoFilter.limit
               => \A r \in GetTasksResults(tasks, u, NoFilter) :
                     /\ r.code = 200
                     /\ {r.items[k] : k \in DOMAIN r.items} = mine
                     /\ Len(r.items) = Cardinality(mine)
                     /\ \A i, j \in DOMAIN r.items : i < j => r.items[i] > r.items[j]

\* C12: for every combination of the list filters (status, priority, assigned_to_me,
\* created_by_me), every task GET /tasks/ returns is one the caller created or is
\* assigned to, and never one for which GET /tasks/{id} by the same caller answers
\* 403.
C12_ListScopedToCaller ==
    \A u \in UserIds, q \in Queries :
        \A r \in GetTasksResults(tasks, u, q) :
            r.code = 200 =>
                \A k \in DOMAIN r.items :
                    /\ CreatedBy(tasks[r.items[k]], u) \/ AssignedTo(tasks[r.items[k]], u)
                    /\ GetTaskResult(tasks, u, [wf |-> TRUE, n |-> r.items[k]]).code /= 403

-----------------------------------------------------------------------------
(* app/models/user.py, app/core/security.py *)

\* get_password_hash(password): a one-way hash, written here as a tagged value
get_password_hash(password) == <<"hash", password>>
\* verify_password(plain, hashed)
verify_password(plain, hashed) == hashed = get_password_hash(plain)
\* create_access_token(data={"sub": username}): the token carries its subject
create_access_token(sub) == Some(sub)

\* User(...) as register_user builds it: is_active takes the class default
User(username, email, hashed_password, full_name) ==
    [username |-> username, email |-> email, hashed_password |-> hashed_password,
     full_name |-> full_name, is_active |-> TRUE]

\* User.find_one(User.username == username): the first match in the collection, or None
FindByUsername(us, username) ==
    LET hits == {i \in DOMAIN us : us[i].username = username}
    IN  IF hits = {} THEN None ELSE Some(us[CHOOSE i \in hits : \A j \in hits : i <= j])

\* User.find_one(User.email == email)
FindByEmail(us, email) ==
    LET hits == {i \in DOMAIN us : us[i].email = email}
    IN  IF hits = {} THEN None ELSE Some(us[CHOOSE i \in hits : \A j \in hits : i <= j])

\* user.insert(): the collection's indexes on username and email are not unique
InsertUser(us, data) ==
    Append(us, User(data.username, data.email, get_password_hash(data.password),
                    data.full_name))

-----------------------------------------------------------------------------
(* register_user (POST /auth/register), login_user (POST /auth/login) *)

\* register_user with the email lookup made before the username lookup
RegisterResult_EmailFirst(us, data) ==
    IF FindByEmail(us, data.email) /= None
    THEN [code |-> 400, detail |-> "Email already registered", users |-> us]
    ELSE IF FindByUsername(us, data.username) /= None
         THEN [code |-> 400, detail |-> "Username already registered", users |-> us]
         ELSE [code |-> 201, detail |-> "", users |-> InsertUser(us, data)]

RegisterResult(us, data) ==
    IF FindByUsername(us, data.username) /= None
    THEN [code |-> 400, detail |-> "Username already registered", users |-> us]
    ELSE IF FindByEmail(us, data.email) /= None
         THEN [code |-> 400, detail |-> "Email already registered", users |-> us]
         ELSE [code |-> 201, detail |-> "", users |-> InsertUser(us, data)]

\* login_user with the is_active test made before the password test
LoginResult_ActiveFirst(us, username, password) ==
    LET user == FindByUsername(us, username)
    IN  IF user = None
        THEN [code |-> 401, detail |-> "Incorrect username or password", token |-> None]
        ELSE IF ~TheValue(user).is_active
             THEN [code |-> 400, detail |-> "Inactive user", token |-> None]
             ELSE IF ~verify_password(password, TheValue(user).hashed_password)
                  THEN [code |-> 401, detail |-> "Incorrect username or password",
                        token |-> None]
                  ELSE [code |-> 200, detail |-> "",
                        token |-> create_access_token(TheValue(user).username)]

LoginResult(us, username, password) ==
    LET user == FindByUsername(us, username)
    IN  IF user = None \/ ~verify_password(password, TheValue(user).hashed_password)
        THEN [code |-> 401, detail |-> "Incorrect username or password", token |-> None]
        ELSE IF ~TheValue(user).is_active
             THEN [code |-> 400, detail |-> "Inactive user", token |-> None]
             ELSE [code |-> 200, detail |-> "",
                   token |-> create_access_token(TheValue(user).username)]

Usernames == {"ann", "bob"}
Emails == {"ann@x", "bob@x"}
Passwords == {"pw1", "pw2"}
UserCreate == [username : Usernames, email : Emails, password : Passwords, full_name : {None}]

\* The users collection outlives the process: it starts empty, or holds an account
\* registered earlier, which may have been deactivated in the store since
SeedUsers ==
    {<<>>}
    \cup {<<[User("ann", "ann@x", get_password_hash("pw1"), None) EXCEPT !.is_active = a]>> :
            a \in BOOLEAN}

InitAuth ==
    /\ tasks = EmptyStore
    /\ next_id = 1
    /\ now = 1
    /\ boot_time = 0
    /\ users \in SeedUsers
    /\ regs = <<>>
    /\ upds = <<>>
    /\ resp = NoResp

register_user(data) ==
    LET r == RegisterResult(users, data)
    IN  /\ r.users /= users => Len(users) < MaxUsers
        /\ users' = r.users
        /\ resp' = Resp("register", r.code, r.detail)
        /\ UNCHANGED <<tasks, next_id, now, boot_time, regs, upds>>

login_user(username, password) ==
    LET r == LoginResult(users, username, password)
    IN  /\ resp' = [Resp("login", r.code, r.detail) EXCEPT !.token = r.token]
        /\ UNCHANGED <<tasks, next_id, now, boot_time, users, regs, upds>>

NextAuth ==
    \/ \E data \in UserCreate : register_user(data)
    \/ \E u \in Usernames, p \in Passwords : login_user(u, p)

SpecAuth == InitAuth /\ [][NextAuth]_vars

\* C6: a registration whose username is that of a stored user, or whose email is
\* that of a stored user, answers 400 and adds no user; when the username collides
\* the answer is the username conflict, whether or not the email collides too.
C6_RegisterConflict ==
    \A data \in UserCreate :
        LET r == RegisterResult(users, data)
            sameName == \E i \in DOMAIN users : users[i].username = data.username
            sameEmail == \E i \in DOMAIN users : users[i].email = data.email
        IN  /\ sameName =>
                 r = [code |-> 400, detail |-> "Username already registered", users |-> users]
            /\ (sameEmail /\ ~sameName) =>
                 r = [code |-> 400, detail |-> "Email already registered", users |-> users]

\* C6's case: a registration has just been refused for its username while the
\* directory holds a user, and no user was added
C6_Witness ==
    /\ resp.op = "register"
    /\ resp.code = 400
    /\ resp.detail = "Username already registered"
    /\ Len(users) = 1

\* The answers of login, case by case, in the current state
C8_LoginTable ==
    \A username \in Usernames, password \in Passwords :
        LET r == LoginResult(users, username, password)
            known == \E i \in DOMAIN users : users[i].username = username
            right == \E i \in DOMAIN users :
                        /\ users[i].username = username
                        /\ users[i].hashed_password = get_password_hash(password)
            active == \E i \in DOMAIN users : users[i].username = username /\ users[i].is_active
        IN  /\ r.token /= None <=> (known /\ right /\ active)
            /\ r.token /= None <=> r.code = 200
            /\ (~known \/ ~right) => r.code = 401
            /\ (known /\ right /\ ~active) => r.code = 400

\* C8: login answers with a token only when the username is stored, the password
\* is the one the stored hash was made from, and the account is active; an unknown
\* username or a wrong password answers 401, also on an inactive account; the right
\* password on an inactive account answers 400; a login that fails leaves the users
\* and the tasks as they were.
C8_LoginOutcome ==
    [][/\ C8_LoginTable
       /\ C8_LoginTable'
       /\ (resp'.op = "login" /\ resp'.code /= 200)
             => (users' = users /\ tasks' = tasks)]_vars

\* C8's case: the right password was given for an inactive account and refused
C8_Witness ==
    /\ resp.op = "login"
    /\ resp.code = 400
    /\ resp.token = None
    /\ \E i \in DOMAIN users : ~users[i].is_active

-----------------------------------------------------------------------------
(* Registrations in flight: register_user yields to other requests at each await *)

IdleReg == [pc |-> "idle", data |-> None]

InitReg ==
    /\ tasks = EmptyStore
    /\ next_id = 1
    /\ now = 1
    /\ boot_time = 0
    /\ users = <<>>
    /\ regs = [r \in 1..MaxRegs |-> IdleReg]
    /\ upds = <<>>
    /\ resp = NoResp

\* await User.find_one(User.username == user_data.username), and the answer if found
reg_find_username(r, data) ==
    /\ regs[r].pc = "idle"
    /\ IF FindByUsername(users, data.username) /= None
       THEN /\ regs' = [regs EXCEPT ![r] = [pc |-> "done", data |-> Some(data)]]
            /\ resp' = Resp("register", 400, "Username already registered")
       ELSE /\ regs' = [regs EXCEPT ![r] = [pc |-> "find_email", data |-> Some(data)]]
            /\ resp' = resp
    /\ UNCHANGED <<tasks, next_id, now, boot_time, users, upds>>

\* await User.find_one(User.email == user_data.email), and the answer if found
reg_find_email(r) ==
    /\ regs[r].pc = "find_email"
    /\ IF FindByEmail(users, TheValue(regs[r].data).email) /= None
       THEN /\ regs' = [regs EXCEPT ![r].pc = "done"]
            /\ resp' = Resp("register", 400, "Email already registered")
       ELSE /\ regs' = [regs EXCEPT ![r].pc = "insert"]
            /\ resp' = resp
    /\ UNCHANGED <<tasks, next_id, now, boot_time, users, upds>>

\* await user.insert(), and the 201 answer
reg_insert(r) ==
    /\ regs[r].pc = "insert"
    /\ users' = InsertUser(users, TheValue(regs[r].data))
    /\ regs' = [regs EXCEPT ![r].pc = "done"]
    /\ resp' = Resp("register", 201, "")
    /\ UNCHANGED <<tasks, next_id, now, boot_time, upds>>

NextReg ==
    \/ \E r \in 1..MaxRegs, data \in UserCreate : reg_find_username(r, data)
    \/ \E r \in 1..MaxRegs : reg_find_email(r)
    \/ \E r \in 1..MaxRegs : reg_insert(r)

SpecReg == InitReg /\ [][NextReg]_vars

\* C7: in every reachable state of the users collection, also when the lookups and
\* inserts of several registrations interleave, no two stored users have the same
\* username and no two have the same email.
C7_UsernameAndEmailUnique ==
    \A i, j \in DOMAIN users :
        i /= j => (users[i].username /= users[j].username /\ users[i].email /= users[j].email)

-----------------------------------------------------------------------------
(* Updates in flight: update_task and update_task_status yield to other requests *)
(* at await Task.get(...), await task.update(...) and await task.save()          *)

NoReq == [kind |-> "none", user |-> "", pid |-> [wf |-> FALSE, n |-> 0],
          body |-> EmptyBody, status |-> ""]
IdleUpd == [pc |-> "idle", req |-> NoReq, local |-> None, update_data |-> EmptyBody]

\* Status updates sent while another may be in flight, through either handler
ConcRequests ==
    {[kind |-> "patch", user |-> u, pid |-> pid, body |-> EmptyBody, status |-> s] :
        u \in UserIds, pid \in PathIds(MaxTasks), s \in TaskStatus}
    \cup {[kind |-> "put", user |-> u, pid |-> pid, body |-> b, status |-> ""] :
            u \in UserIds, pid \in PathIds(MaxTasks),
            b \in {Field("status", Some(TODO)), Field("status", Some(COMPLETED))}}

\* upds.reqs: the requests; upds.base: the collection as it was when the first of
\* them was received
InitConc ==
    /\ tasks = EmptyStore
    /\ next_id = 1
    /\ now = 1
    /\ boot_time = 0
    /\ users = <<>>
    /\ regs = <<>>
    /\ upds = [reqs |-> [r \in 1..MaxUpds |-> IdleUpd], base |-> EmptyStore]
    /\ resp = NoResp

conc_create_task(user_id, body) ==
    /\ next_id <= MaxTasks
    /\ \A r \in 1..MaxUpds : upds.reqs[r].pc = "idle"
    /\ create_task(user_id, body)

\* A status update handled alone, before the concurrent ones are received
solo_update_task_status(user_id, pid, status) ==
    /\ \A r \in 1..MaxUpds : upds.reqs[r].pc = "idle"
    /\ update_task_status(user_id, pid, status)

\* The handler up to its write: the task is read and checked, and update_data is
\* computed from the status that was read
upd_read(r, req) ==
    LET found == LoadTask(tasks, req.pid)
        task == TheValue(found)
        update_data == IF req.kind = "put"
                       THEN PutUpdateData(task, TaskUpdate(req.body), now)
                       ELSE PatchUpdateData(task, req.status, now)
        code == IF found = None THEN 404 ELSE IF ~Involved(task, req.user) THEN 403 ELSE 200
        answered == code /= 200 \/ DOMAIN update_data = {}
        first == \A q \in 1..MaxUpds : upds.reqs[q].pc = "idle"
    IN  /\ upds.reqs[r].pc = "idle"
        /\ tasks /= EmptyStore
        /\ upds' = [reqs |-> [upds.reqs EXCEPT ![r] =
                                IF answered
                                THEN [IdleUpd EXCEPT !.pc = "done", !.req = req]
                                ELSE [pc |-> "update", req |-> req, local |-> found,
                                      update_data |-> update_data]],
                    base |-> IF first THEN tasks ELSE upds.base]
        /\ resp' = IF answered THEN Resp(req.kind, code, "") ELSE resp
        /\ now' = now + 1
        /\ UNCHANGED <<tasks, next_id, boot_time, users, regs>>

\* await task.update({"$set": update_data}): the store applies the $set to the
\* document as it is now and returns it; the local copy becomes what was returned
upd_update(r) ==
    LET id == upds.reqs[r].req.pid.n
        written == DocSet(tasks[id], upds.reqs[r].update_data)
    IN  /\ upds.reqs[r].pc = "update"
        /\ tasks' = [tasks EXCEPT ![id] = written]
        /\ IF ValidTask(written)
           THEN /\ upds' = [upds EXCEPT !.reqs[r].pc = "save", !.reqs[r].local = Some(written)]
                /\ resp' = resp
           ELSE /\ upds' = [upds EXCEPT !.reqs[r].pc = "done"]
                /\ resp' = Resp(upds.reqs[r].req.kind, 500, "")
        /\ UNCHANGED <<next_id, now, boot_time, users, regs>>

\* await task.save(), and the 200 answer
upd_save(r) ==
    LET id == upds.reqs[r].req.pid.n
    IN  /\ upds.reqs[r].pc = "save"
        /\ tasks' = DocSave(tasks, id, TheValue(upds.reqs[r].local))
        /\ upds' = [upds EXCEPT !.reqs[r].pc = "done"]
        /\ resp' = Resp(upds.reqs[r].req.kind, 200, "")
        /\ UNCHANGED <<next_id, now, boot_time, users, regs>>

NextConc ==
    \/ \E u \in UserIds, b \in CreateBodies : conc_create_task(u, b)
    \/ \E u \in UserIds, pid \in PathIds(MaxTasks), st \in TaskStatus :
          solo_update_task_status(u, pid, st)
    \/ \E r \in 1..MaxUpds, req \in ConcRequests : upd_read(r, req)
    \/ \E r \in 1..MaxUpds : upd_update(r)
    \/ \E r \in 1..MaxUpds : upd_save(r)

SpecConc == InitConc /\ [][NextConc]_vars

\* One request handled alone, from its read to its answer
ApplyReq(store, req, t) ==
    IF req.kind = "put"
    THEN UpdateTaskResult(store, req.user, req.pid, req.body, t).store
    ELSE UpdateTaskStatusResult(store, req.user, req.pid, req.status, t).store

RECURSIVE ApplySeq(_, _, _)
ApplySeq(store, order, t) ==
    IF order = <<>> THEN store
    ELSE ApplySeq(ApplyReq(store, upds.reqs[Head(order)].req, t), Tail(order), t + 1)

\* A collection without the instants of its timestamps: what was written, not when
Shape(store) ==
    [id \in DOMAIN store |->
        [store[id] EXCEPT !.updated_at = None,
                          !.completed_at = IF @ = None THEN None ELSE Some(0)]]

\* C10: when two update requests on the same task have run concurrently and both
\* have answered, the stored task is what handling the two one after the other, in
\* one of the two orders, leaves behind, and its completed_at is non-null if and
\* only if its status is completed.
C10_ConcurrentUpdatesSerialize ==
    LET done == {r \in 1..MaxUpds : upds.reqs[r].pc = "done"}
    IN  (Cardinality(done) = 2 /\ \A r \in 1..MaxUpds : upds.reqs[r].pc \in {"idle", "done"})
           => /\ \E order \in Perms(done) :
                    Shape(ApplySeq(upds.base, order, now)) = Shape(tasks)
              /\ \A id \in DOMAIN tasks :
                    (tasks[id].completed_at /= None) <=> (tasks[id].status = Some(COMPLETED))

=============================================================================
